---- MODULE Spec2Model ----
(***************************************************************************)
(* Verification model of the example programs of openai-realtime-api-beta  *)
(* (examples/advanced_mood.js, examples/mood.mjs,                          *)
(* examples/function_call_example.js).                                     *)
(*                                                                         *)
(* The programs are event driven on one execution context: every listener  *)
(* below runs to completion before the next one starts, so each listener   *)
(* is one action.  The groups of listeners below share no state and are    *)
(* checked under their own specification:                                  *)
(*   SpecMic   the microphone listeners ('data', 'silence', 'error')       *)
(*   SpecTool  the tool callback and the 'conversation.item.completed'     *)
(*             listener that resets the conversation, one call at a time   *)
(*   SpecOverlap  the same listeners with several tool calls in flight     *)
(*   SpecPlay  the 'conversation.item.completed' listener of the voice     *)
(*             assistant and playAudio                                     *)
(*   SpecMain  main() of the programs with a microphone: connect, retry,   *)
(*             startAudioStream, then the microphone listeners             *)
(*   SpecHandlers  the tool callback and listener of each of the three     *)
(*             programs that register a tool                               *)
(*   SpecSession  advanced_mood.js as a whole: the microphone listeners    *)
(*             together with a tool call and the conversation reset        *)
(***************************************************************************)
EXTENDS Integers, Sequences, FiniteSets, TLC

VARIABLES
    \* ---- microphone pipeline (startAudioStream) ----
    audioBuffer,    \* let audioBuffer: bytes not yet framed
    received,       \* history: every byte handed to the 'data' listener, in order
    appendCalls,    \* history: the calls client.appendInputAudio(int16Array)
    createCalls,    \* history: number of client.createResponse() calls
    periodCalls,    \* history: createResponse() calls since the last loud chunk
    quiet,          \* mic: consecutive silent chunks seen by the silence detector
    spoke,          \* history: a loud chunk has been captured
    micPhase,       \* mic: which event of the current chunk is delivered next
    micErrors,      \* history: number of 'error' events logged
    uttFailed,      \* history: appendInputAudio or createResponse threw in this utterance
    afterFailure,   \* history: a frame or a response request followed such a throw
    lastCommit,     \* history: frames sent, bytes received and audioBuffer at the
                    \*          last client.createResponse() call
    \* ---- tool calls and conversation reset ----
    calls,          \* per tool call: phase, argument, and what the callback did
    items,          \* client.conversation.items
    clearedFrom,    \* history: items.length just before the last reset, -1 if none
    lastCompleted,  \* history: kind of item of the last 'conversation.item.completed'
    \* ---- playback (voice assistant) ----
    speaker,        \* let speaker: the current Speaker instance or Null
    played,         \* history: number of playAudio calls
    speakersMade,   \* history: number of Speaker instances constructed
    \* ---- main ----
    program,        \* which of the example programs runs
    mainPhase,      \* where main() stands
    attempts,       \* history: number of client.connect() calls
    connected,      \* a client.connect() has resolved
    micStarts,      \* history: number of startAudioStream() calls
    micRunning      \* the microphone listeners are attached and the mic started

micVars  == <<audioBuffer, received, appendCalls, createCalls, periodCalls,
              quiet, spoke, micPhase, micErrors, uttFailed, afterFailure,
              lastCommit>>
toolVars == <<calls, items, clearedFrom, lastCompleted>>
playVars == <<speaker, played, speakersMade>>
mainVars == <<program, mainPhase, attempts, connected, micStarts, micRunning>>
vars     == <<micVars, toolVars, playVars, mainVars>>

Null == "null"

\* ---------------------------------------------------------------------------
\* Bounds of the model
\* ---------------------------------------------------------------------------

\* Samples per frame.  The programs fix chunkSize = 4800 bytes (2400 samples);
\* the framing code never looks at the value except through chunkSize, the
\* model keeps the 2 bytes/sample layout and scales the sample count.
FrameSamples == 2

\* Most bytes the microphone delivers in one run.
MaxTotal == 14

\* Most 'error' events of the microphone in one run.
MaxMicErrors == 1

\* ---------------------------------------------------------------------------
\* Microphone pipeline: startAudioStream
\* ---------------------------------------------------------------------------

\* const chunkSize = 4800, in bytes: 2 bytes for each 16-bit sample.
chunkSize == 2 * FrameSamples

\* micOptions.exitOnSilence
exitOnSilence == 6

\* The silence counter is only ever compared with exitOnSilence; the model
\* stops counting above it.
QuietCap == exitOnSilence + 2

\* Longest chunk of one 'data' event: enough for two frames and a remainder.
MaxData == 2 * chunkSize + 1

\* The byte captured at position i of the stream.  The listeners never branch
\* on a byte's value; distinct values at distinct positions make every loss,
\* duplication or reordering visible.  Values above 127 give negative samples.
ByteAt(i) == (i * 37) % 256

\* The chunk of n bytes that follows the `from` bytes captured so far.
Capture(from, n) == [i \in 1..n |-> ByteAt(from + i)]

\* One element of new Int16Array(buffer, byteOffset, length): two bytes in
\* little-endian order read as a signed 16-bit integer.
ToInt16(lo, hi) ==
    LET u == lo + 256 * hi
    IN  IF u >= 32768 THEN u - 65536 ELSE u

\* new Int16Array(chunk.buffer, chunk.byteOffset, chunk.length / 2)
Int16View(chunk) ==
    [i \in 1..(Len(chunk) \div 2) |-> ToInt16(chunk[2 * i - 1], chunk[2 * i])]

\* The bytes an Int16Array occupies (its byteLength is 2 * length).
Int16Bytes(samples) ==
    [i \in 1..(2 * Len(samples)) |->
        LET s == samples[(i + 1) \div 2]
            u == IF s < 0 THEN s + 65536 ELSE s
        IN  IF i % 2 = 1 THEN u % 256 ELSE u \div 256]

\* while (audioBuffer.length >= chunkSize)
LoopCondOffByOne(buf) == Len(buf) > chunkSize
LoopCond(buf) == Len(buf) >= chunkSize

\* const chunk = audioBuffer.slice(0, chunkSize)
SliceHeadAll(buf) == buf
SliceHead(buf) == SubSeq(buf, 1, chunkSize)

\* audioBuffer = audioBuffer.slice(chunkSize)
SliceRestOverlap(buf) == SubSeq(buf, chunkSize, Len(buf))
SliceRest(buf) == SubSeq(buf, chunkSize + 1, Len(buf))

\* The while loop of the 'data' listener, started with buffer buf after
\* `done` calls of this event; throws is the set of iterations (counted from
\* 1) in which client.appendInputAudio throws.  The catch only logs, the loop
\* goes on.  Result: the buffer left and the calls made, in order.
FrameLoopOnce(buf, done, throws) ==
    IF LoopCond(buf)
    THEN [buffer |-> SliceRest(buf),
          calls  |-> <<[samples |-> Int16View(SliceHead(buf)),
                        ok |-> (done + 1) \notin throws]>>]
    ELSE [buffer |-> buf, calls |-> <<>>]

RECURSIVE FrameLoop(_, _, _)
FrameLoop(buf, done, throws) ==
    IF LoopCond(buf)
    THEN LET chunk == SliceHead(buf)
             rest  == SliceRest(buf)
             call  == [samples |-> Int16View(chunk), ok |-> (done + 1) \notin throws]
             after == FrameLoop(rest, done + 1, throws)
         IN  [buffer |-> after.buffer, calls |-> <<call>> \o after.calls]
    ELSE [buffer |-> buf, calls |-> <<>>]

\* The mic package's silence detector looks at each captured chunk before it
\* is pushed to the stream: a loud chunk restarts the count of consecutive
\* silent chunks, a silent one adds to it, and 'silence' is emitted when the
\* count reaches exitOnSilence.  The chunk's 'data' event follows.
Transform(loud) ==
    /\ micPhase = "idle"
    /\ Len(received) < MaxTotal
    /\ quiet' = IF loud THEN 0
                ELSE IF quiet < QuietCap THEN quiet + 1 ELSE quiet
    /\ spoke' = (spoke \/ loud)
    /\ periodCalls' = IF loud THEN 0 ELSE periodCalls
    /\ micPhase' = IF ~loud /\ quiet + 1 = exitOnSilence THEN "silence" ELSE "data"
    /\ UNCHANGED <<audioBuffer, received, appendCalls, createCalls, micErrors,
                   uttFailed, afterFailure, lastCommit>>
    /\ UNCHANGED <<toolVars, playVars, mainVars>>

\* micInputStream.on('silence', ...): client.createResponse() in a try whose
\* catch only logs; throws tells whether createResponse throws.  The request
\* closes the utterance.
OnSilenceTwice(throws) ==
    /\ micPhase = "silence"
    /\ createCalls' = createCalls + 2
    /\ periodCalls' = periodCalls + 2
    /\ micPhase' = "data"
    /\ afterFailure' = (afterFailure \/ uttFailed)
    /\ uttFailed' = FALSE
    /\ lastCommit' = [frames |-> Len(appendCalls), bytes |-> Len(received),
                      rest |-> audioBuffer]
    /\ UNCHANGED <<audioBuffer, received, appendCalls, quiet, spoke, micErrors>>
    /\ UNCHANGED <<toolVars, playVars, mainVars>>

OnSilenceDiscard(throws) ==
    /\ micPhase = "silence"
    /\ createCalls' = createCalls + 1
    /\ periodCalls' = periodCalls + 1
    /\ micPhase' = "data"
    /\ afterFailure' = (afterFailure \/ uttFailed)
    /\ uttFailed' = FALSE
    /\ lastCommit' = [frames |-> Len(appendCalls), bytes |-> Len(received),
                      rest |-> audioBuffer]
    /\ audioBuffer' = <<>>
    /\ UNCHANGED <<received, appendCalls, quiet, spoke, micErrors>>
    /\ UNCHANGED <<toolVars, playVars, mainVars>>

OnSilence(throws) ==
    /\ micPhase = "silence"
    /\ createCalls' = createCalls + 1
    /\ periodCalls' = periodCalls + 1
    /\ micPhase' = "data"
    /\ afterFailure' = (afterFailure \/ uttFailed)
    /\ uttFailed' = FALSE
    /\ lastCommit' = [frames |-> Len(appendCalls), bytes |-> Len(received),
                      rest |-> audioBuffer]
    /\ UNCHANGED <<audioBuffer, received, appendCalls, quiet, spoke, micErrors>>
    /\ UNCHANGED <<toolVars, playVars, mainVars>>

\* micInputStream.on('data', ...) (processAudioData in the voice assistant):
\* n is data.length, throws the iterations in which appendInputAudio throws.
OnData(n, throws) ==
    /\ micPhase = "data"
    /\ Len(received) + n <= MaxTotal
    /\ LET data == Capture(Len(received), n)
           loop == FrameLoop(audioBuffer \o data, 0, throws)
       IN  /\ throws \subseteq 1..Len(loop.calls)
           /\ audioBuffer' = loop.buffer
           /\ appendCalls' = appendCalls \o loop.calls
           /\ received' = received \o data
           /\ uttFailed' = (uttFailed \/ throws # {})
           /\ afterFailure' = \/ afterFailure
                              \/ uttFailed /\ loop.calls # <<>>
                              \/ \E i \in throws : i < Len(loop.calls)
    /\ micPhase' = "idle"
    /\ UNCHANGED <<createCalls, periodCalls, quiet, spoke, micErrors, lastCommit>>
    /\ UNCHANGED <<toolVars, playVars, mainVars>>

\* micInputStream.on('error', ...): logs the error.
OnErrorFlush ==
    /\ micPhase = "idle"
    /\ micErrors < MaxMicErrors
    /\ micErrors' = micErrors + 1
    /\ audioBuffer' = <<>>
    /\ UNCHANGED <<received, appendCalls, createCalls, periodCalls,
                   quiet, spoke, micPhase, uttFailed, afterFailure, lastCommit>>
    /\ UNCHANGED <<toolVars, playVars, mainVars>>

OnError ==
    /\ micPhase = "idle"
    /\ micErrors < MaxMicErrors
    /\ micErrors' = micErrors + 1
    /\ UNCHANGED <<audioBuffer, received, appendCalls, createCalls, periodCalls,
                   quiet, spoke, micPhase, uttFailed, afterFailure, lastCommit>>
    /\ UNCHANGED <<toolVars, playVars, mainVars>>

\* ---------------------------------------------------------------------------
\* Strings: a string is the sequence of its characters; Absent stands for
\* undefined (the argument is missing from the tool call) and is no string.
\* ---------------------------------------------------------------------------

Absent == <<"undefined">>

UpperChars == <<"A", "B", "C", "D", "E", "F", "G", "H", "I", "J", "K", "L", "M",
                "N", "O", "P", "Q", "R", "S", "T", "U", "V", "W", "X", "Y", "Z">>
LowerChars == <<"a", "b", "c", "d", "e", "f", "g", "h", "i", "j", "k", "l", "m",
                "n", "o", "p", "q", "r", "s", "t", "u", "v", "w", "x", "y", "z">>

ToLowerChar(ch) ==
    IF \E i \in 1..26 : UpperChars[i] = ch
    THEN LowerChars[CHOOSE i \in 1..26 : UpperChars[i] = ch]
    ELSE ch

ToUpperChar(ch) ==
    IF \E i \in 1..26 : LowerChars[i] = ch
    THEN UpperChars[CHOOSE i \in 1..26 : LowerChars[i] = ch]
    ELSE ch

\* String.prototype.toLowerCase
toLowerCase(str) == [i \in 1..Len(str) |-> ToLowerChar(str[i])]

\* The string literals of the switch of action_handler.
yes      == <<"y", "e", "s">>
no       == <<"n", "o">>
idk      == <<"i", "d", "k">>
happy    == <<"h", "a", "p", "p", "y">>
sad      == <<"s", "a", "d">>
annoyed  == <<"a", "n", "n", "o", "y", "e", "d">>
fearful  == <<"f", "e", "a", "r", "f", "u", "l">>
proud    == <<"p", "r", "o", "u", "d">>
laugh    == <<"l", "a", "u", "g", "h">>
friendly == <<"f", "r", "i", "e", "n", "d", "l", "y">>
none     == <<"n", "o", "n", "e">>

\* The ten case labels of the switch.
Canonical == {yes, no, idk, happy, sad, annoyed, fearful, proud, laugh, friendly}

\* Spellings of word w in upper and lower case: all lower case, all upper
\* case, and one capital at each position.
CaseVariants(w) ==
    {[i \in 1..Len(w) |-> IF i \in U THEN ToUpperChar(w[i]) ELSE w[i]] :
        U \in {{}, 1..Len(w)} \cup {{k} : k \in 1..Len(w)}}

\* Strings that are no case label: unknown words, the empty string, a
\* string of one blank, and labels with a blank before or after.
xyz == <<"x", "y", "z">>
Others ==
    CaseVariants(xyz) \cup CaseVariants(none)
      \cup {<<>>, <<" ">>, <<" ">> \o yes, no \o <<" ">>, yes \o <<"s">>, <<"y", "e">>}

\* The values of the `action` argument the service sends: the declared type
\* of the parameter is string, and the argument can be missing.
ActionInputs ==
    UNION {CaseVariants(w) : w \in Canonical} \cup Others \cup {Absent}

\* A few arguments, for runs with several tool calls in flight.
FewInputs == {yes, <<"N", "o">>, Absent}

\* ---------------------------------------------------------------------------
\* The tool callback: client.addTool({name: 'action_handler', ...}, async ...)
\* ---------------------------------------------------------------------------

\* The truthiness test of `action ? ... : ...`: undefined and the empty
\* string are falsy.
Truthy(arg) == arg # Absent /\ arg # <<>>

\* const normalized = action ? action.toLowerCase() : "none"
NormalizeNoLower(arg) == IF Truthy(arg) THEN arg ELSE none
Normalize(arg) == IF Truthy(arg) THEN toLowerCase(arg) ELSE none

\* switch (normalized) { case "yes": yesResponse(); break; ... default: log }
\* The local functions called, in order.
SwitchFallThrough(normalized) ==
    CASE normalized = yes      -> <<"yesResponse", "noResponse">>
      [] normalized = no       -> <<"noResponse">>
      [] normalized = idk      -> <<"dontKnowResponse">>
      [] normalized = happy    -> <<"happy", "sad">>
      [] normalized = sad      -> <<"sad">>
      [] normalized = annoyed  -> <<"annoyed">>
      [] normalized = fearful  -> <<"fearful">>
      [] normalized = proud    -> <<"proud">>
      [] normalized = laugh    -> <<"laugh">>
      [] normalized = friendly -> <<"friendly">>
      [] OTHER                 -> <<>>

Switch(normalized) ==
    CASE normalized = yes      -> <<"yesResponse">>
      [] normalized = no       -> <<"noResponse">>
      [] normalized = idk      -> <<"dontKnowResponse">>
      [] normalized = happy    -> <<"happy">>
      [] normalized = sad      -> <<"sad">>
      [] normalized = annoyed  -> <<"annoyed">>
      [] normalized = fearful  -> <<"fearful">>
      [] normalized = proud    -> <<"proud">>
      [] normalized = laugh    -> <<"laugh">>
      [] normalized = friendly -> <<"friendly">>
      [] OTHER                 -> <<>>

\* The whole callback: the identifier it looks up, what it invokes and the
\* object it returns.
ActionHandler(arg) ==
    LET normalized == Normalize(arg)
    IN  [lookup  |-> normalized,
         invoked |-> Switch(normalized),
         result  |-> [status |-> "processed", action |-> normalized]]

\* const normalizedMood = mood ? mood.toLowerCase() : ""   (mood.mjs)
\* const normalized = mood ? mood.toLowerCase() : ""       (function_call_example.js)
NormalizeMood(arg) == IF Truthy(arg) THEN toLowerCase(arg) ELSE <<>>

\* if (normalizedMood === 'happy') happy(); else if (... === 'sad') sad();
\* else log
MoodBranch(normalizedMood) ==
    IF normalizedMood = happy THEN <<"happy">>
    ELSE IF normalizedMood = sad THEN <<"sad">>
    ELSE <<>>

\* The mood_handler callback of mood.mjs (status 'processed') and of
\* function_call_example.js (status 'done'): return { status, mood }.
MoodHandler(status, arg) ==
    LET normalizedMood == NormalizeMood(arg)
    IN  [lookup  |-> normalizedMood,
         invoked |-> MoodBranch(normalizedMood),
         result  |-> [status |-> status, mood |-> arg]]

\* The programs that register a tool, and the callback each registers.
ToolPrograms == {"advanced_mood", "mood", "function_call_example"}

ToolHandler(prog, arg) ==
    CASE prog = "advanced_mood"         -> ActionHandler(arg)
      [] prog = "mood"                  -> MoodHandler("processed", arg)
      [] prog = "function_call_example" -> MoodHandler("done", arg)

\* ---------------------------------------------------------------------------
\* client.on('conversation.item.completed', ...): the conversation reset
\* ---------------------------------------------------------------------------

\* The listener applied to an item of the given type when
\* client.conversation.items is its (an array: the client keeps it one):
\* the items afterwards and whether the reset was performed.
ItemCompletedListenerPop(type, its) ==
    IF type = "function_call"
    THEN [items |-> IF its = <<>> THEN <<>> ELSE SubSeq(its, 1, Len(its) - 1),
          reset |-> TRUE]
    ELSE [items |-> its, reset |-> FALSE]

ItemCompletedListenerAnyType(type, its) == [items |-> <<>>, reset |-> TRUE]

ItemCompletedListener(type, its) ==
    IF type = "function_call"
    THEN [items |-> <<>>, reset |-> TRUE]
    ELSE [items |-> its, reset |-> FALSE]

\* The listener of function_call_example.js only logs function_call items.
LoggingListener(type, its) == [items |-> its, reset |-> FALSE]

\* The 'conversation.item.completed' listener program prog registers.
CompletedListener(prog, type, its) ==
    IF prog = "function_call_example"
    THEN LoggingListener(type, its)
    ELSE ItemCompletedListener(type, its)

\* ---------------------------------------------------------------------------
\* The session around the callbacks.  A tool call goes through the phases
\*   free -> requested (the service has emitted the function_call item)
\*        -> returned  (the callback ran; being async it returned a promise
\*                      that holds the result object)
\*        -> acked     (the client took the result out of the promise and
\*                      sent it to the service)
\* and its item is reported completed once, at a moment the callbacks do not
\* control.
\* ---------------------------------------------------------------------------

\* Most items the conversation holds.
MaxItems == 2

\* Most tool calls in flight at a time in SpecOverlap.
MaxOverlap == 2

Slots == 1..MaxOverlap

ItemTypes == {"message", "function_call", "function_call_output"}

\* No result object yet.
NoResult == [status |-> "none", action |-> <<>>]

FreeCall ==
    [phase |-> "free", arg |-> Absent, lookup |-> <<>>, invoked |-> <<>>,
     result |-> NoResult, completed |-> FALSE, resets |-> 0, resetPhase |-> Null]

\* The session proxy records an item of the conversation.
ItemAdded(type) ==
    /\ Len(items) < MaxItems
    /\ items' = Append(items, type)
    /\ UNCHANGED <<calls, clearedFrom, lastCompleted>>
    /\ UNCHANGED <<micVars, playVars, mainVars>>

\* The service emits a tool call with argument arg; slot c holds it.  A slot
\* is taken again once its call is acknowledged and its item completed.
ToolCallRequested(c, arg) ==
    /\ \/ calls[c].phase = "free"
       \/ calls[c].phase = "acked" /\ calls[c].completed
    /\ calls' = [calls EXCEPT ![c] = [FreeCall EXCEPT !.phase = "requested", !.arg = arg]]
    /\ UNCHANGED <<items, clearedFrom, lastCompleted>>
    /\ UNCHANGED <<micVars, playVars, mainVars>>

\* The client invokes the tool callback for call c.  The callback has no
\* await: its body runs to the return in this one step.
RunHandler(c) ==
    /\ calls[c].phase = "requested"
    /\ LET h == ToolHandler(program, calls[c].arg)
       IN  calls' = [calls EXCEPT ![c].phase = "returned",
                                  ![c].lookup = h.lookup,
                                  ![c].invoked = h.invoked,
                                  ![c].result = h.result]
    /\ UNCHANGED <<items, clearedFrom, lastCompleted>>
    /\ UNCHANGED <<micVars, playVars, mainVars>>

\* The client takes the result of call c and sends it to the service.
Acknowledge(c) ==
    /\ calls[c].phase = "returned"
    /\ calls' = [calls EXCEPT ![c].phase = "acked"]
    /\ UNCHANGED <<items, clearedFrom, lastCompleted>>
    /\ UNCHANGED <<micVars, playVars, mainVars>>

\* 'conversation.item.completed' for the function_call item of call c.
ItemCompleted(c) ==
    /\ calls[c].phase # "free"
    /\ ~calls[c].completed
    /\ LET l == CompletedListener(program, "function_call", items)
       IN  /\ items' = l.items
           /\ clearedFrom' = IF l.reset THEN Len(items) ELSE clearedFrom
           /\ calls' = [calls EXCEPT
                          ![c].completed = TRUE,
                          ![c].resets = IF l.reset THEN @ + 1 ELSE @,
                          ![c].resetPhase = IF l.reset THEN calls[c].phase ELSE @]
    /\ lastCompleted' = "function_call"
    /\ UNCHANGED <<micVars, playVars, mainVars>>

\* 'conversation.item.completed' for an item of another type.
OtherItemCompleted(type) ==
    /\ type # "function_call"
    /\ LET l == CompletedListener(program, type, items)
       IN  /\ items' = l.items
           /\ clearedFrom' = IF l.reset THEN Len(items) ELSE clearedFrom
    /\ lastCompleted' = type
    /\ UNCHANGED calls
    /\ UNCHANGED <<micVars, playVars, mainVars>>

\* ---------------------------------------------------------------------------
\* Playback (voice assistant): playAudio and the Speaker it writes to
\* ---------------------------------------------------------------------------

\* Most playAudio calls in one run.
MaxPlays == 4

\* let speaker: undefined until the first playback, null after a 'close'.
\*   pipes      streams piped into this instance since it was constructed
\*   flowing    piped streams that have not ended yet
\*   ended      speaker.end() was called (pipe does so when a source ends)
\*   listeners  'close' listeners attached to this instance
NoSpeaker == [exists |-> FALSE, pipes |-> 0, flowing |-> 0, ended |-> FALSE,
              listeners |-> 0]

\* if (!speaker) { speaker = new Speaker({...}) }
SpeakerFor(sp) ==
    IF ~sp.exists
    THEN [exists |-> TRUE, pipes |-> 0, flowing |-> 0, ended |-> FALSE, listeners |-> 0]
    ELSE sp

\* playAudio(audioData): take or make the speaker, wrap the bytes in a
\* Readable, pipe it to the speaker and attach a 'close' listener.
playAudio(sp) ==
    LET s == SpeakerFor(sp)
    IN  [s EXCEPT !.pipes = @ + 1, !.flowing = @ + 1, !.listeners = @ + 1]

\* client.on('conversation.item.completed', ...) of the voice assistant, for
\* an assistant message that carries audio: playAudio(item.formatted.audio).
AudioItemCompleted ==
    /\ played < MaxPlays
    /\ speaker' = playAudio(speaker)
    /\ played' = played + 1
    /\ speakersMade' = IF speaker.exists THEN speakersMade ELSE speakersMade + 1
    /\ lastCompleted' = "audio"
    /\ UNCHANGED <<calls, items, clearedFrom>>
    /\ UNCHANGED <<micVars, mainVars>>

\* The same listener for any other item: it only logs.
SilentItemCompleted(type) ==
    /\ lastCompleted' = type
    /\ UNCHANGED <<calls, items, clearedFrom>>
    /\ UNCHANGED <<micVars, playVars, mainVars>>

\* A piped Readable has pushed its buffer and null: it ends, and pipe calls
\* speaker.end().
SourceEnd ==
    /\ speaker.exists
    /\ speaker.flowing > 0
    /\ speaker' = [speaker EXCEPT !.flowing = @ - 1, !.ended = TRUE]
    /\ UNCHANGED <<played, speakersMade>>
    /\ UNCHANGED <<micVars, toolVars, mainVars>>

\* The ended speaker has played what it was given and emits 'close': every
\* listener attached by playAudio runs `speaker = null`.
SpeakerClose ==
    /\ speaker.exists
    /\ speaker.ended
    /\ speaker.listeners > 0
    /\ speaker' = NoSpeaker
    /\ UNCHANGED <<played, speakersMade>>
    /\ UNCHANGED <<micVars, toolVars, mainVars>>

\* ---------------------------------------------------------------------------
\* main(): connect, then start the microphone
\* ---------------------------------------------------------------------------

\* Most client.connect() calls in one run.
MaxAttempts == 3

\* The programs whose main() starts the microphone.
MicPrograms == {"advanced_mood", "mood", "assistant"}

\* The catch block of main(): the voice assistant logs and calls
\* setTimeout(main, 5000); the other programs only log, and main returns.
Catch(prog) == IF prog = "assistant" THEN "waiting" ELSE "stopped"

\* startAudioStream(): its whole body is in a try whose catch only logs, so
\* a failure to start the microphone (micFails) does not reach the caller.
\* Result: whether the microphone delivers events afterwards, and whether
\* an exception propagates to main.
StartPropagates(micFails) == [running |-> ~micFails, thrown |-> micFails]
startAudioStream(micFails) == [running |-> ~micFails, thrown |-> FALSE]

\* The statement main() reaches after `await client.connect()`, by whether
\* the promise was fulfilled: startAudioStream() or the catch block.
AfterAwaitAlwaysStart(fulfilled) == "start"
AfterAwait(fulfilled) == IF fulfilled THEN "start" ELSE "catch"

\* `await client.connect()` is fulfilled: main calls startAudioStream().
ConnectResolves(micFails) ==
    /\ mainPhase = "connecting"
    /\ AfterAwait(TRUE) = "start"
    /\ LET m == startAudioStream(micFails)
       IN  /\ micRunning' = m.running
           /\ mainPhase' = IF m.thrown THEN Catch(program) ELSE "done"
    /\ connected' = TRUE
    /\ micStarts' = micStarts + 1
    /\ UNCHANGED <<program, attempts>>
    /\ UNCHANGED <<micVars, toolVars, playVars>>

\* `await client.connect()` is rejected: control goes to the catch block.
ConnectRejects(micFails) ==
    /\ mainPhase = "connecting"
    /\ IF AfterAwait(FALSE) = "catch"
       THEN /\ mainPhase' = Catch(program)
            /\ UNCHANGED <<micStarts, micRunning>>
       ELSE LET m == startAudioStream(micFails)
            IN  /\ micRunning' = m.running
                /\ micStarts' = micStarts + 1
                /\ mainPhase' = IF m.thrown THEN Catch(program) ELSE "done"
    /\ UNCHANGED <<program, attempts, connected>>
    /\ UNCHANGED <<micVars, toolVars, playVars>>

\* The timer set by setTimeout(main, 5000) fires: main() runs again up to
\* its await.
TimerFires ==
    /\ mainPhase = "waiting"
    /\ attempts < MaxAttempts
    /\ attempts' = attempts + 1
    /\ mainPhase' = "connecting"
    /\ UNCHANGED <<program, connected, micStarts, micRunning>>
    /\ UNCHANGED <<micVars, toolVars, playVars>>

\* The first main() call of program prog has reached its await.
MainInit(prog) ==
    /\ program = prog
    /\ mainPhase = "connecting"
    /\ attempts = 1
    /\ connected = FALSE
    /\ micStarts = 0
    /\ micRunning = FALSE

\* Program prog is connected, with its microphone (if it has one) started.
Started(prog) ==
    /\ program = prog
    /\ mainPhase = "done"
    /\ attempts = 1
    /\ connected = TRUE
    /\ micStarts = IF prog \in MicPrograms THEN 1 ELSE 0
    /\ micRunning = (prog \in MicPrograms)

MicInit ==
    /\ audioBuffer = <<>>
    /\ received = <<>>
    /\ appendCalls = <<>>
    /\ createCalls = 0
    /\ periodCalls = 0
    /\ quiet = 0
    /\ spoke = FALSE
    /\ micPhase = "idle"
    /\ micErrors = 0
    /\ uttFailed = FALSE
    /\ afterFailure = FALSE
    /\ lastCommit = [frames |-> 0, bytes |-> 0, rest |-> <<>>]

ToolInit ==
    /\ calls = [c \in Slots |-> FreeCall]
    /\ items = <<>>
    /\ clearedFrom = -1
    /\ lastCompleted = Null

PlayInit ==
    /\ speaker = NoSpeaker
    /\ played = 0
    /\ speakersMade = 0

\* advanced_mood.js after a successful start.
Init == MicInit /\ ToolInit /\ PlayInit /\ Started("advanced_mood")

MicNext ==
    \/ \E loud \in BOOLEAN : Transform(loud)
    \/ \E throws \in BOOLEAN : OnSilence(throws)
    \/ \E n \in 1..MaxData : \E throws \in SUBSET (1..(MaxData \div chunkSize)) :
          OnData(n, throws)
    \/ OnError

SpecMic == Init /\ [][MicNext]_vars

\* main() of the three programs with a microphone, and the microphone
\* listeners once they are attached and the microphone started.
MainNext ==
    \/ \E micFails \in BOOLEAN : ConnectResolves(micFails)
    \/ \E micFails \in BOOLEAN : ConnectRejects(micFails)
    \/ TimerFires
    \/ micRunning /\ MicNext

InitMain ==
    MicInit /\ ToolInit /\ PlayInit /\ \E prog \in MicPrograms : MainInit(prog)

SpecMain == InitMain /\ [][MainNext]_vars

\* The tool-call listeners with the calls held in `slots` and the arguments
\* drawn from `inputs`.
ToolNext(slots, inputs) ==
    \/ \E type \in ItemTypes : ItemAdded(type)
    \/ \E c \in slots : \E arg \in inputs : ToolCallRequested(c, arg)
    \/ \E c \in slots : RunHandler(c)
    \/ \E c \in slots : Acknowledge(c)
    \/ \E c \in slots : ItemCompleted(c)
    \/ \E type \in ItemTypes \ {"function_call"} : OtherItemCompleted(type)

\* One tool call at a time, every argument.
SpecTool == Init /\ [][ToolNext({1}, ActionInputs)]_vars

\* Several tool calls in flight, a few arguments.
SpecOverlap == Init /\ [][ToolNext(Slots, FewInputs)]_vars

\* Arguments for the three tool callbacks together.
HandlerInputs ==
    CaseVariants(happy) \cup
      {sad, yes, xyz, <<>>, <<" ">>, <<" ">> \o happy, sad \o <<" ">>, Absent}

\* The tool callback and listener of each program that registers a tool.
InitHandlers ==
    MicInit /\ ToolInit /\ PlayInit /\ \E prog \in ToolPrograms : Started(prog)

SpecHandlers == InitHandlers /\ [][ToolNext({1}, HandlerInputs)]_vars

\* advanced_mood.js as a whole: the microphone listeners, with no call to
\* the client throwing, together with one tool call at a time and the
\* listener that resets the conversation.
SessionNext ==
    \/ \E loud \in BOOLEAN : Transform(loud)
    \/ OnSilence(FALSE)
    \/ \E n \in 1..MaxData : OnData(n, {})
    \/ ItemAdded("message")
    \/ ToolCallRequested(1, yes)
    \/ RunHandler(1)
    \/ Acknowledge(1)
    \/ ItemCompleted(1)

SpecSession == Init /\ [][SessionNext]_vars

PlayNext ==
    \/ AudioItemCompleted
    \/ \E type \in ItemTypes : SilentItemCompleted(type)
    \/ SourceEnd
    \/ SpeakerClose

\* The voice assistant after a successful start.
InitPlay == MicInit /\ ToolInit /\ PlayInit /\ Started("assistant")

SpecPlay == InitPlay /\ [][PlayNext]_vars

\* ---------------------------------------------------------------------------
\* Properties
\* ---------------------------------------------------------------------------

\* The bytes of the frame passed in the k-th appendInputAudio call.
FrameBytes(k) == Int16Bytes(appendCalls[k].samples)

\* The bytes of all frames passed in the calls cs, in call order.
RECURSIVE SentBytes(_)
SentBytes(cs) ==
    IF cs = <<>> THEN <<>>
    ELSE Int16Bytes(Head(cs).samples) \o SentBytes(Tail(cs))

\* C1: whenever the bytes received so far add up to a multiple of chunkSize,
\* appendInputAudio has been called exactly total/chunkSize times, the k-th
\* call carried exactly the k-th chunkSize bytes of the input, and the buffer
\* is empty.
C1_FrameAlignment ==
    Len(received) % chunkSize = 0 =>
        /\ Len(appendCalls) = Len(received) \div chunkSize
        /\ \A k \in 1..Len(appendCalls) :
              /\ 2 * Len(appendCalls[k].samples) = chunkSize
              /\ FrameBytes(k) = SubSeq(received, (k - 1) * chunkSize + 1, k * chunkSize)
        /\ audioBuffer = <<>>

\* C1 witness: two events' worth of input made exactly two frames.
C1_Witness ==
    /\ Len(received) = 2 * chunkSize
    /\ Len(appendCalls) = 2
    /\ audioBuffer = <<>>

\* C2: the frames sliced off so far, followed by the bytes still buffered,
\* are exactly the bytes received, in order: nothing is lost or sent twice.
C2_NoLossNoDuplication == SentBytes(appendCalls) \o audioBuffer = received

\* C2 witness: frames have been sent and a remainder is buffered.
C2_Witness ==
    /\ Len(appendCalls) >= 2
    /\ audioBuffer # <<>>
    /\ Len(received) > 2 * chunkSize

\* C8: createResponse is called at most once in a silence period, and once
\* the 'silence' event of a period after speech has been delivered it has
\* been called exactly once, however long the silence goes on.
C8_OneResponsePerSilence ==
    /\ periodCalls <= 1
    /\ (spoke /\ quiet >= exitOnSilence /\ micPhase # "silence") => periodCalls = 1

\* C8 witness: speech, then silence that went on past the threshold, and
\* still one call.
C8_Witness ==
    /\ spoke
    /\ quiet > exitOnSilence
    /\ micPhase = "idle"
    /\ periodCalls = 1

\* The callback of call c has run.
Handled(c) == calls[c].phase \in {"returned", "acked"}

\* The argument of call c is a string.
IsString(arg) == arg # Absent

\* The local function the program defines for a case label.
FunctionFor(id) ==
    CASE id = yes      -> "yesResponse"
      [] id = no       -> "noResponse"
      [] id = idk      -> "dontKnowResponse"
      [] id = happy    -> "happy"
      [] id = sad      -> "sad"
      [] id = annoyed  -> "annoyed"
      [] id = fearful  -> "fearful"
      [] id = proud    -> "proud"
      [] id = laugh    -> "laugh"
      [] id = friendly -> "friendly"

\* C3: for every tool call the callback returns one result object and invokes
\* at most one local function, exactly one when the action is a case label;
\* the conversation is reset at most once for it, and exactly once when its
\* item has completed.
C3_SingleAcknowledgment ==
    \A c \in Slots :
        /\ Len(calls[c].invoked) <= 1
        /\ calls[c].resets <= 1
        /\ Handled(c) =>
              /\ calls[c].result # NoResult
              /\ (IsString(calls[c].arg) /\ toLowerCase(calls[c].arg) \in Canonical)
                    => Len(calls[c].invoked) = 1
        /\ ~Handled(c) => calls[c].result = NoResult /\ calls[c].invoked = <<>>
        /\ calls[c].completed => calls[c].resets = 1

\* C3 witness: a tool call with a matched action, acknowledged and completed.
C3_Witness ==
    /\ calls[1].phase = "acked"
    /\ calls[1].completed
    /\ calls[1].invoked = <<"sad">>
    /\ calls[1].resets = 1

\* C4 (as claimed): the conversation is reset for a tool call only when that
\* call has been acknowledged.
C4_ResetAfterAcknowledgment ==
    \A c \in Slots : calls[c].resets > 0 => calls[c].resetPhase = "acked"

\* C5: a step that performs the reset for a tool call leaves
\* client.conversation.items empty.
C5_ResetCompleteness ==
    [][(\E c \in Slots : calls'[c].resets > calls[c].resets) => Len(items') = 0]_vars

\* C5 witness: a reset emptied a conversation that held several items.
C5_Witness ==
    /\ clearedFrom >= 2
    /\ items = <<>>
    /\ lastCompleted = "function_call"

\* C6 (as claimed): an action string that is no case label in lower case
\* invokes nothing and is acknowledged with the lower-cased input.
C6_UnknownEchoedLowerCased ==
    \A c \in Slots :
        (Handled(c) /\ IsString(calls[c].arg) /\ toLowerCase(calls[c].arg) \notin Canonical)
            => /\ calls[c].invoked = <<>>
               /\ calls[c].result =
                     [status |-> "processed", action |-> toLowerCase(calls[c].arg)]

\* C6 (amended): an action string that is no case label in lower case invokes
\* nothing, as "none" does, and is acknowledged with status "processed" and
\* the lower-cased input, or "none" when the string is empty.
C6_UnknownActionAcknowledged ==
    \A c \in Slots :
        (Handled(c) /\ IsString(calls[c].arg) /\ toLowerCase(calls[c].arg) \notin Canonical)
            => /\ calls[c].invoked = <<>>
               /\ calls[c].result =
                     [status |-> "processed",
                      action |-> IF calls[c].arg = <<>> THEN none
                                 ELSE toLowerCase(calls[c].arg)]

\* C6 witness: the callback has run for "XYZ" and answered "xyz".
C6_Witness ==
    /\ Handled(1)
    /\ calls[1].arg = <<"X", "Y", "Z">>
    /\ calls[1].result.action = xyz

\* C7 (as claimed): for a case label in any letter case, once the call is
\* acknowledged and its item completed, exactly the function of that label
\* was invoked, the result carries the label in lower case, and the
\* conversation was cleared after the callback had run.
C7_CanonicalDispatchThenReset ==
    \A c \in Slots :
        (/\ calls[c].phase = "acked"
         /\ calls[c].completed
         /\ IsString(calls[c].arg)
         /\ toLowerCase(calls[c].arg) \in Canonical)
            => /\ calls[c].invoked = <<FunctionFor(toLowerCase(calls[c].arg))>>
               /\ calls[c].result =
                     [status |-> "processed", action |-> toLowerCase(calls[c].arg)]
               /\ calls[c].resets = 1
               /\ calls[c].resetPhase \in {"returned", "acked"}

\* C9 (as claimed): no Speaker instance ever has a second stream piped into
\* it.
C9_OneStreamPerSpeaker == speaker.exists => speaker.pipes <= 1

\* C10 (as claimed): no tool call's callback runs while another call's result
\* is still waiting to be acknowledged.
C10_OneCallAtATime ==
    \A c1, c2 \in Slots :
        c1 # c2 => ~(calls[c1].phase = "returned" /\ calls[c2].phase = "returned")

\* Surrounding blanks removed from a string.
RECURSIVE TrimStart(_)
TrimStart(str) ==
    IF str # <<>> /\ Head(str) = " " THEN TrimStart(Tail(str)) ELSE str

RECURSIVE TrimEnd(_)
TrimEnd(str) ==
    IF str # <<>> /\ str[Len(str)] = " "
    THEN TrimEnd(SubSeq(str, 1, Len(str) - 1))
    ELSE str

Trim(str) == TrimEnd(TrimStart(str))

\* The identifier the handlers are said to look up for argument arg.
TrimmedLowerCased(arg) ==
    IF arg = Absent \/ Trim(arg) = <<>> THEN none ELSE toLowerCase(Trim(arg))

\* C11 (as claimed): in every program, the identifier the tool callback
\* looks up is the argument trimmed of surrounding blanks and lower-cased,
\* and "none" for an empty or absent argument.
C11_LookupTrimmedLowerCased ==
    \A c \in Slots : Handled(c) => calls[c].lookup = TrimmedLowerCased(calls[c].arg)

\* The identifier a result object carries: its `action` property in
\* advanced_mood.js, its `mood` property in the other two programs.
IdentifierOf(result) ==
    IF program = "advanced_mood" THEN result.action ELSE result.mood

\* C12 (as claimed): in every program, the result object sent back for a
\* tool call has status "processed" or "done" and carries the identifier the
\* callback looked up, not the raw argument.
C12_AcknowledgmentCarriesNormalized ==
    \A c \in Slots :
        calls[c].phase = "acked"
            => /\ calls[c].result.status \in {"processed", "done"}
               /\ IdentifierOf(calls[c].result) = calls[c].lookup

\* C13 (as claimed): whenever a connection attempt has failed and none has
\* succeeded, main is either connecting again or waiting for the retry timer.
C13_RetryAfterFailure ==
    ~connected => mainPhase \in {"connecting", "waiting"}

\* C14: the microphone is started, a frame appended or a response requested
\* only after a connect() that succeeded; while no connect() has succeeded
\* nothing of the pipeline runs.
C14_NoPipelineWithoutConnect ==
    (\/ micStarts > 0
     \/ micRunning
     \/ received # <<>>
     \/ appendCalls # <<>>
     \/ createCalls > 0) => connected

\* C14 witness: the voice assistant failed to connect, retried, connected,
\* and has since sent a frame and requested a response.
C14_Witness ==
    /\ attempts >= 2
    /\ connected
    /\ appendCalls # <<>>
    /\ createCalls > 0

\* C15 (as claimed): after appendInputAudio throws, no further frame of the
\* utterance is sent and no response is requested for it.
C15_UtteranceAbandonedAfterThrow == ~afterFailure

\* C16: a step in which the microphone's 'error' listener runs leaves
\* audioBuffer as it was, appends no frame and requests no response.
C16_ErrorLeavesPipelineAlone ==
    [][micErrors' # micErrors
          => /\ audioBuffer' = audioBuffer
             /\ appendCalls' = appendCalls
             /\ createCalls' = createCalls]_vars

\* C16 witness: an 'error' event was delivered while bytes were waiting in
\* audioBuffer and after frames had been sent.
C16_Witness ==
    /\ micErrors > 0
    /\ audioBuffer # <<>>
    /\ appendCalls # <<>>

\* C17 (as claimed): playAudio never pipes into a speaker that has already
\* been ended by a finished playback.
C17_PlayNeverUsesEndedSpeaker ==
    [][played' > played => ~(speaker.exists /\ speaker.ended)]_vars

\* C18: between events audioBuffer holds fewer than chunkSize bytes, and
\* every frame passed to appendInputAudio has exactly chunkSize bytes,
\* whatever the chunk lengths and whichever calls threw.
C18_BoundedRemainderExactFrames ==
    /\ Len(audioBuffer) < chunkSize
    /\ \A k \in 1..Len(appendCalls) : Len(FrameBytes(k)) = chunkSize

\* C18 witness: the bytes received are no multiple of chunkSize, several
\* frames were sent, one of the calls threw, and a remainder is buffered.
C18_Witness ==
    /\ Len(received) % chunkSize # 0
    /\ Len(appendCalls) >= 2
    /\ \E k \in 1..Len(appendCalls) : ~appendCalls[k].ok
    /\ audioBuffer # <<>>

\* C19: client.conversation.items gets shorter only in a step that
\* completes a function_call item; a completed item of another type leaves
\* it unchanged.
C19_OnlyFunctionCallsClear ==
    [][/\ Len(items') < Len(items)
          => \E c \in Slots : calls'[c].completed /\ ~calls[c].completed
       /\ (calls' = calls /\ Len(items') <= Len(items)) => items' = items]_vars

\* C19 witness: a message item was completed last and the conversation,
\* never cleared so far, holds several items.
C19_Witness ==
    /\ lastCompleted = "message"
    /\ clearedFrom = -1
    /\ Len(items) >= 2

\* C20: startAudioStream is called at most once in a run, and once a
\* connect() has succeeded main is finished: it neither waits for a retry
\* timer nor connects again, also when the microphone failed to start.
C20_AtMostOneStream ==
    /\ micStarts <= 1
    /\ connected => mainPhase = "done"

\* C20 witness: the voice assistant connected after a failed attempt and
\* the microphone then failed to start.
C20_Witness ==
    /\ program = "assistant"
    /\ attempts >= 2
    /\ connected
    /\ micStarts = 1
    /\ ~micRunning

\* C21: when the 'silence' listener calls createResponse, appendInputAudio
\* has been called for every complete frame of the data received so far;
\* the frames are the bytes received, in the order of capture; and every
\* frame sent after the call holds bytes received after it.
C21_FramesPrecedeCommit ==
    /\ \A k \in 1..Len(appendCalls) :
          FrameBytes(k) = SubSeq(received, (k - 1) * chunkSize + 1, k * chunkSize)
    /\ createCalls > 0
          => /\ lastCommit.frames = lastCommit.bytes \div chunkSize
             /\ \A k \in (lastCommit.frames + 1)..Len(appendCalls) :
                   k * chunkSize > lastCommit.bytes

\* C21 witness: createResponse was called after frames had been sent and
\* with a remainder buffered, and a frame has been sent since.
C21_Witness ==
    /\ createCalls > 0
    /\ lastCommit.frames >= 1
    /\ lastCommit.rest # <<>>
    /\ Len(appendCalls) > lastCommit.frames

\* The remainder buffered at the last createResponse call is still at the
\* head of audioBuffer, or is the head of the first frame sent since.
RemainderKept ==
    createCalls > 0
        => LET r == lastCommit.rest
           IN  /\ Len(r) < chunkSize
               /\ IF Len(appendCalls) > lastCommit.frames
                  THEN SubSeq(FrameBytes(lastCommit.frames + 1), 1, Len(r)) = r
                  ELSE /\ Len(audioBuffer) >= Len(r)
                       /\ SubSeq(audioBuffer, 1, Len(r)) = r

\* C22: a step of the 'silence' listener and a step that resets the
\* conversation leave audioBuffer unchanged and send no frame, and the
\* remainder buffered when the response is requested becomes the head of the
\* next frame.
C22_RemainderSurvivesCommit ==
    /\ [][(\/ createCalls' > createCalls
           \/ \E c \in Slots : calls'[c].resets > calls[c].resets)
             => /\ audioBuffer' = audioBuffer
                /\ appendCalls' = appendCalls]_vars
    /\ []RemainderKept

\* C22 witness: a response was requested with a remainder buffered, a
\* non-empty conversation was reset, and a frame has been sent since the
\* request.
C22_Witness ==
    /\ createCalls > 0
    /\ lastCommit.rest # <<>>
    /\ Len(appendCalls) > lastCommit.frames
    /\ calls[1].resets > 0
    /\ clearedFrom >= 1

====
